---- MODULE Spec2Model ----
(***************************************************************************)
(* upfeed (main.go): a feed poller that extracts job postings from feed    *)
(* items, keeps two keyed stores (unfiltered, filtered) persisted in one   *)
(* JSON file per calendar day and category, and notifies about postings    *)
(* that are newer than a running watermark.                                *)
(*                                                                         *)
(* Go strings are modelled as sequences of tokens.  A token is either one  *)
(* character, or a run of characters none of which is a blank, a           *)
(* separator (",", "-", "$") or a member of a trim cutset, so that every   *)
(* string operation of the program acts on whole tokens.                   *)
(***************************************************************************)
EXTENDS Integers, Sequences, FiniteSets, TLC

(***************************************************************************)
(* Bounds of the model.                                                    *)
(***************************************************************************)
\* items the loop takes from the feeds, over all cycles and runs
MaxItems == 3
\* calendar days the clock passes through
MaxDay == 2

(***************************************************************************)
(* strings                                                                 *)
(***************************************************************************)
WhiteSpace == {" ", "\t", "\n"}

Digits == {"0", "1", "2", "3", "4", "5", "6", "7", "8", "9"}

DigitVal(c) ==
    CASE c = "0" -> 0 [] c = "1" -> 1 [] c = "2" -> 2 [] c = "3" -> 3
      [] c = "4" -> 4 [] c = "5" -> 5 [] c = "6" -> 6 [] c = "7" -> 7
      [] c = "8" -> 8 [] c = "9" -> 9

RECURSIVE TrimLeft(_, _)
\* strings.TrimLeft: drop the leading tokens that belong to cutset
TrimLeft(s, cutset) ==
    IF s # <<>> /\ Head(s) \in cutset THEN TrimLeft(Tail(s), cutset) ELSE s

RECURSIVE TrimRight(_, _)
\* strings.TrimRight: drop the trailing tokens that belong to cutset
TrimRight(s, cutset) ==
    IF s # <<>> /\ s[Len(s)] \in cutset
    THEN TrimRight(SubSeq(s, 1, Len(s) - 1), cutset)
    ELSE s

\* strings.TrimSpace
TrimSpace(s) == TrimRight(TrimLeft(s, WhiteSpace), WhiteSpace)

\* strings.ReplaceAll(s, old, "") for a one-character old
ReplaceAll(s, old) == SelectSeq(s, LAMBDA c : c # old)

\* strings.HasPrefix
HasPrefix(s, p) == Len(s) >= Len(p) /\ SubSeq(s, 1, Len(p)) = p

RECURSIVE SplitFrom(_, _, _)
\* the pieces of s between the occurrences of sep, cur being the piece read so far
SplitFrom(s, sep, cur) ==
    IF s = <<>> THEN <<cur>>
    ELSE IF HasPrefix(s, sep)
         THEN <<cur>> \o SplitFrom(SubSeq(s, Len(sep) + 1, Len(s)), sep, <<>>)
         ELSE SplitFrom(Tail(s), sep, Append(cur, Head(s)))

\* strings.Split for a non-empty sep: always at least one piece
Split(s, sep) == SplitFrom(s, sep, <<>>)

RECURSIVE DigitsValue(_)
\* the number a sequence of decimal digits denotes
DigitsValue(s) ==
    IF s = <<>> THEN 0
    ELSE 10 * DigitsValue(SubSeq(s, 1, Len(s) - 1)) + DigitVal(s[Len(s)])

AllDigits(s) == s # <<>> /\ \A i \in 1..Len(s) : s[i] \in Digits

\* a ParseInt that gives 0 for what is not a number
ParseIntOrZero(s) ==
    IF AllDigits(s) THEN [err |-> FALSE, v |-> DigitsValue(s)]
    ELSE [err |-> FALSE, v |-> 0]

\* strconv.ParseInt(s, 10, 64): optional sign, then digits (values below 2^63)
ParseInt(s) ==
    LET body == IF s # <<>> /\ Head(s) \in {"+", "-"} THEN Tail(s) ELSE s
    IN  IF AllDigits(body)
        THEN [err |-> FALSE,
              v |-> IF Head(s) = "-" THEN 0 - DigitsValue(body) ELSE DigitsValue(body)]
        ELSE [err |-> TRUE, v |-> 0]

(***************************************************************************)
(* float32: a finite value (whole numbers only) or +Inf                    *)
(***************************************************************************)
Num(n) == [k |-> "num", v |-> n]

PosInf == [k |-> "inf", v |-> 0]

\* strconv.ParseFloat(s, 32): decimal digits, or the special value "Inf"
ParseFloat(s) ==
    IF AllDigits(s) THEN [err |-> FALSE, f |-> Num(DigitsValue(s))]
    ELSE IF s = <<"Inf">> THEN [err |-> FALSE, f |-> PosInf]
    ELSE [err |-> TRUE, f |-> Num(0)]

(***************************************************************************)
(* time.Time: an instant and a location pointer.  ptr 0 is the nil pointer *)
(* (UTC), ptr 1 is &localLoc, a larger ptr is a Location allocated by      *)
(* time.FixedZone.  Go's == on time.Time, which is the map key equality,   *)
(* compares the pointer as well as the instant.                            *)
(***************************************************************************)
UTC == [ptr |-> 0, name |-> "UTC", offset |-> 0]

\* the zone of the machine the process runs on
LocalZone == [name |-> "EET", offset |-> 2]

Local == [ptr |-> 1, name |-> LocalZone.name, offset |-> LocalZone.offset]

\* time.FixedZone(name, offset): a new Location at address ptr
FixedZone(name, offset, ptr) == [ptr |-> ptr, name |-> name, offset |-> offset]

\* the zero time.Time (var recentJob time.Time; a Job without Posted On)
ZeroTime == [sec |-> 0, loc |-> UTC]

\* Time.After: compares the instants only
After(t, u) == t.sec > u.sec

\* the zone abbreviations the layout's MST accepts in the feeds of the model
ZoneAbbrevs == {"UTC", "EET", "PST"}

\* time.Parse("January 2, 2006 15:04 MST", val).  The date and clock text is
\* abstracted to digits giving the wall clock reading; the zone abbreviation
\* follows after one blank.  fresh is the address a new Location would get.
ParseTime(val, fresh) ==
    LET parts == Split(val, <<" ">>)
    IN  IF Len(parts) # 2 \/ ~AllDigits(parts[1]) \/ Len(parts[2]) # 1
           \/ parts[2][1] \notin ZoneAbbrevs
        THEN [err |-> TRUE, t |-> ZeroTime, alloc |-> FALSE]
        ELSE LET wall == DigitsValue(parts[1])
                 zone == parts[2][1]
             IN  IF zone = "UTC"
                 THEN [err |-> FALSE, t |-> [sec |-> wall, loc |-> UTC], alloc |-> FALSE]
                 ELSE IF zone = LocalZone.name
                 THEN [err |-> FALSE,
                       t |-> [sec |-> wall - LocalZone.offset, loc |-> Local],
                       alloc |-> FALSE]
                 ELSE [err |-> FALSE,
                       t |-> [sec |-> wall, loc |-> FixedZone(zone, 0, fresh)],
                       alloc |-> TRUE]

(***************************************************************************)
(* Job and the feed items                                                  *)
(***************************************************************************)
\* a Job that starts with a PostedOn other than the zero time
NewJobPosted ==
    [Title |-> <<>>, PostedOn |-> [sec |-> 1, loc |-> UTC], Category |-> <<>>,
     Skills |-> <<>>, Country |-> <<>>, IsHourly |-> TRUE,
     HourlyRange |-> <<Num(0), Num(0)>>, Budget |-> 0]

\* the zero Job, with IsHourly set (var job Job; job.IsHourly = true)
NewJob ==
    [Title |-> <<>>, PostedOn |-> ZeroTime, Category |-> <<>>, Skills |-> <<>>,
     Country |-> <<>>, IsHourly |-> TRUE, HourlyRange |-> <<Num(0), Num(0)>>,
     Budget |-> 0]

\* the characters of the cutset " - Upwork"
TitleCutset == {" ", "-", "U", "p", "w", "o", "r", "k"}

RECURSIVE TrimEach(_)
\* for i := range skills { skills[i] = strings.TrimSpace(skills[i]) }
TrimEach(ss) ==
    IF ss = <<>> THEN <<>> ELSE <<TrimSpace(Head(ss))>> \o TrimEach(Tail(ss))

\* one iteration of ParseJob's loop over the matches: the switch on the label.
\* st is [err, job, fresh]; fresh is the next unused Location address.
ParseMatch(st, match) ==
    LET key == TrimSpace(match.key)
        val == TrimSpace(match.val)
        job == st.job
    IN  CASE key = <<"Posted", " ", "On">> ->
               LET r == ParseTime(val, st.fresh)
               IN  IF r.err THEN [st EXCEPT !.err = TRUE]
                   ELSE [err |-> FALSE,
                         job |-> [job EXCEPT !.PostedOn = r.t],
                         fresh |-> IF r.alloc THEN st.fresh + 1 ELSE st.fresh]
          [] key = <<"Category">> ->
               [st EXCEPT !.job = [job EXCEPT !.Category = val]]
          [] key = <<"Skills">> ->
               [st EXCEPT !.job = [job EXCEPT !.Skills = TrimEach(Split(val, <<",", " ">>))]]
          [] key = <<"Country">> ->
               [st EXCEPT !.job = [job EXCEPT !.Country = val]]
          [] key = <<"Budget">> ->
               LET r == ParseInt(ReplaceAll(ReplaceAll(val, "$"), ","))
               IN  IF r.err THEN [st EXCEPT !.err = TRUE]
                   ELSE [st EXCEPT !.job = [job EXCEPT !.Budget = r.v, !.IsHourly = FALSE]]
          [] key = <<"Hourly", " ", "Range">> ->
               LET split == Split(ReplaceAll(val, "$"), <<"-">>)
                   lower == ParseFloat(split[1])
                   upper == ParseFloat(split[2])
               IN  IF lower.err THEN [st EXCEPT !.err = TRUE]
                   ELSE IF Len(split) > 1
                   THEN IF upper.err THEN [st EXCEPT !.err = TRUE]
                        ELSE [st EXCEPT !.job =
                                 [job EXCEPT !.HourlyRange = <<lower.f, upper.f>>]]
                   ELSE [st EXCEPT !.job =
                            [job EXCEPT !.HourlyRange = <<lower.f, Num(0)>>]]
          [] OTHER -> st

RECURSIVE ParseMatches(_, _)
\* for _, match := range matches: a fatal error ends the process at once
ParseMatches(st, matches) ==
    IF st.err \/ matches = <<>> THEN st
    ELSE ParseMatches(ParseMatch(st, Head(matches)), Tail(matches))

\* ParseJob(item).  item.Content is given as the list of the regular
\* expression's matches, each [key, val] being the two submatches.
ParseJob(item, fresh) ==
    ParseMatches([err |-> FALSE,
                  job |-> [NewJob EXCEPT !.Title = TrimRight(item.Title, TitleCutset)],
                  fresh |-> fresh],
                 item.Content)

\* %v of a float32
FormatFloat(f) == IF f.k = "inf" THEN "+Inf" ELSE ToString(f.v)

\* Job.Format
Format(j) ==
    <<"Country: ">> \o j.Country \o <<"\n">> \o
    (IF j.IsHourly
     THEN <<"Type: Hourly\nHourly Range: $", FormatFloat(j.HourlyRange[1]), "-$",
            FormatFloat(j.HourlyRange[2]), "\n">>
     ELSE <<"Type: Fixed price\nBudget: $", ToString(j.Budget), "\n">>)

\* a classifier that knows one of the two countries only
JunkOnlyIndia(j) ==
    IF j.Country = <<"India">>
    THEN [junk |-> TRUE, reason |-> <<"Country is ">> \o j.Country]
    ELSE [junk |-> FALSE, reason |-> <<>>]

\* a classifier whose reason leaves the country out
JunkNoCountry(j) ==
    IF j.Country = <<"India">> \/ j.Country = <<"Nigeria">>
    THEN [junk |-> TRUE, reason |-> <<"Country is ">>]
    ELSE [junk |-> FALSE, reason |-> <<>>]

\* a classifier that matches the country whatever its case
JunkAnyCase(j) ==
    IF j.Country \in {<<"India">>, <<"india">>, <<"INDIA">>,
                      <<"Nigeria">>, <<"nigeria">>, <<"NIGERIA">>}
    THEN [junk |-> TRUE, reason |-> <<"Country is ">> \o j.Country]
    ELSE [junk |-> FALSE, reason |-> <<>>]

\* Job.Junk
Junk(j) ==
    IF j.Country = <<"India">> \/ j.Country = <<"Nigeria">>
    THEN [junk |-> TRUE, reason |-> <<"Country is ">> \o j.Country]
    ELSE [junk |-> FALSE, reason |-> <<>>]

(***************************************************************************)
(* the stores and their files                                              *)
(***************************************************************************)
\* make(map[time.Time]Job)
EmptyMap == [k \in {} |-> NewJob]

\* an insert that leaves an entry already at the key as it is
UpsertKeepOld(m, j) ==
    [k \in DOMAIN m \cup {j.PostedOn} |-> IF k \in DOMAIN m THEN m[k] ELSE j]

\* m[job.PostedOn] = job
Upsert(m, j) ==
    [k \in DOMAIN m \cup {j.PostedOn} |-> IF k = j.PostedOn THEN j ELSE m[k]]

Values(m) == {m[k] : k \in DOMAIN m}

\* Time.MarshalJSON: the RFC 3339 text, which is the wall clock reading in the
\* time's location and that location's offset ("Z" when the offset is 0)
MarshalTime(t) == [wall |-> t.sec + t.loc.offset, off |-> t.loc.offset]

\* Time.UnmarshalJSON: "Z" gives UTC, the local zone's offset gives Local, and
\* any other offset a Location from time.FixedZone
UnmarshalTime(x, fresh) ==
    [sec |-> x.wall - x.off,
     loc |-> IF x.off = 0 THEN UTC
             ELSE IF x.off = LocalZone.offset THEN Local
             ELSE FixedZone("", x.off, fresh)]

\* json.Marshal of a Job fails on a float that is not finite
MarshalFails(j) == \E i \in 1..2 : j.HourlyRange[i].k # "num"

\* the JSON object of a Job: strings, numbers and booleans are written and read
\* back unchanged, the time as its RFC 3339 text
MarshalJob(j) == [j EXCEPT !.PostedOn = MarshalTime(j.PostedOn)]

UnmarshalJob(x, fresh) == [x EXCEPT !.PostedOn = UnmarshalTime(x.PostedOn, fresh)]

\* a file name that leaves the category out
FilenameNoCategory(date, category) == <<date, "unfiltered">>

\* fmt.Sprintf("upfeed_%s_%s.json", time.Now().Format("02-01-2006"), category)
Filename(date, category) == <<date, category>>

RECURSIVE SortedOrders(_)
\* the orders sort.Slice may leave the jobs in: PostedOn descending by After, jobs
\* of one instant in any order (the map is ranged over in any order and the sort
\* is not stable)
SortedOrders(S) ==
    IF S = {} THEN {<<>>}
    ELSE UNION {{<<j>> \o rest : rest \in SortedOrders(S \ {j})} :
                j \in {x \in S : \A y \in S : ~After(y.PostedOn, x.PostedOn)}}

\* a SaveJobs that removes the category's files of other days
SaveJobsRotate(fs, date, category, m) ==
    IF \E j \in Values(m) : MarshalFails(j)
    THEN {[err |-> TRUE, files |-> fs]}
    ELSE {[err |-> FALSE,
           files |-> [f \in {g \in DOMAIN fs : g[2] # category}
                                \cup {Filename(date, category)} |->
                         IF f = Filename(date, category)
                         THEN [i \in 1..Len(js) |-> MarshalJob(js[i])]
                         ELSE fs[f]]] : js \in SortedOrders(Values(m))}

\* a SaveJobs that appends the records to the file's content
SaveJobsAppend(fs, date, category, m) ==
    IF \E j \in Values(m) : MarshalFails(j)
    THEN {[err |-> TRUE, files |-> fs]}
    ELSE {[err |-> FALSE,
           files |-> [f \in DOMAIN fs \cup {Filename(date, category)} |->
                         IF f = Filename(date, category)
                         THEN (IF f \in DOMAIN fs THEN fs[f] ELSE <<>>) \o
                              [i \in 1..Len(js) |-> MarshalJob(js[i])]
                         ELSE fs[f]]] : js \in SortedOrders(Values(m))}

\* SaveJobs(dir, category, jobs) on calendar day date: the outcomes it may have,
\* each the directory's files afterwards, or err when json.Marshal failed
SaveJobs(fs, date, category, m) ==
    IF \E j \in Values(m) : MarshalFails(j)
    THEN {[err |-> TRUE, files |-> fs]}
    ELSE {[err |-> FALSE,
           files |-> [f \in DOMAIN fs \cup {Filename(date, category)} |->
                         IF f = Filename(date, category)
                         THEN [i \in 1..Len(js) |-> MarshalJob(js[i])]
                         ELSE fs[f]]] : js \in SortedOrders(Values(m))}

RECURSIVE LoadFrom(_, _, _)
\* for _, job := range js { jobs[job.PostedOn] = job }
LoadFrom(m, js, fresh) ==
    IF js = <<>> THEN m
    ELSE LoadFrom(Upsert(m, UnmarshalJob(Head(js), fresh)), Tail(js), fresh + 1)

RECURSIVE LoadJobsLatest(_, _, _, _)
\* a LoadJobs that falls back on the file of the day before
LoadJobsLatest(fs, date, category, fresh) ==
    IF date = 0 THEN EmptyMap
    ELSE IF Filename(date, category) \in DOMAIN fs
    THEN LoadFrom(EmptyMap, fs[Filename(date, category)], fresh)
    ELSE LoadJobsLatest(fs, date - 1, category, fresh)

\* LoadJobs(dir, category) on calendar day date
LoadJobs(fs, date, category, fresh) ==
    IF Filename(date, category) \notin DOMAIN fs THEN EmptyMap
    ELSE LoadFrom(EmptyMap, fs[Filename(date, category)], fresh)

(***************************************************************************)
(* the feed items of the model                                             *)
(***************************************************************************)
Match(k, v) == [key |-> k, val |-> v]

Suffix == <<" ", "-", " ", "U", "p", "w", "o", "r", "k">>

PostedOn(v) == Match(<<"Posted", " ", "On">>, <<" ">> \o v \o <<"\n">>)

Country(c) == Match(<<"Country">>, <<" ", c, "\n">>)

\* posted at 2 UTC, hourly, from Germany
ItemT ==
    [Title |-> <<"A">> \o Suffix,
     Content |-> <<PostedOn(<<"2", " ", "UTC">>),
                   Match(<<"Category">>, <<" ", "Web", "\n">>),
                   Match(<<"Skills">>, <<" ", "go", ",", " ", "tla", " ", "\n">>),
                   Country("Germany"),
                   Match(<<"Hourly", " ", "Range">>, <<" ", "$", "1", "5", "-", "$", "3", "0", "\n">>)>>]

\* posted at 1 UTC, fixed price, from Germany
ItemOlder ==
    [Title |-> <<"B">> \o Suffix,
     Content |-> <<PostedOn(<<"1", " ", "UTC">>),
                   Match(<<"Budget">>, <<" ", "$", "1", ",", "5", "0", "0", "\n">>),
                   Country("Germany")>>]

\* posted at 3 UTC, with a label the program does not know and no Country label
ItemNewer ==
    [Title |-> <<"C">> \o Suffix,
     Content |-> <<PostedOn(<<"3", " ", "UTC">>),
                   Match(<<"Hourly", " ", "Range">>, <<" ", "$", "2", "0", "\n">>),
                   Match(<<"Job", " ", "ID">>, <<" ", "7", "\n">>)>>]

\* posted at 2 UTC like ItemT, from Nigeria, with an Hourly Range label and then
\* a Budget label
ItemJunkT ==
    [Title |-> <<"D">> \o Suffix,
     Content |-> <<PostedOn(<<"2", " ", "UTC">>),
                   Match(<<"Hourly", " ", "Range">>, <<" ", "$", "1", "5", "\n">>),
                   Match(<<"Budget">>, <<" ", "$", "5", "0", "0", "\n">>),
                   Country("Nigeria")>>]

\* posted at 2 in a zone the machine does not know, the country in lower case
ItemFabricated ==
    [Title |-> <<"E">> \o Suffix,
     Content |-> <<PostedOn(<<"2", " ", "PST">>), Country("india")>>]

\* no Posted On label; a Budget label and then an Hourly Range label
ItemNoDate ==
    [Title |-> <<"G">> \o Suffix,
     Content |-> <<Country("Germany"),
                   Match(<<"Budget">>, <<" ", "$", "5", "0", "0", "\n">>),
                   Match(<<"Hourly", " ", "Range">>, <<" ", "$", "1", "5", "-", "$", "3", "0", "\n">>)>>]

\* a Posted On value that is not in the layout
ItemBadDate ==
    [Title |-> <<"H">> \o Suffix,
     Content |-> <<Country("Germany"), PostedOn(<<"soon">>)>>]

\* an hourly range that is not finite
ItemInf ==
    [Title |-> <<"I">> \o Suffix,
     Content |-> <<PostedOn(<<"3", " ", "UTC">>),
                   Match(<<"Hourly", " ", "Range">>, <<" ", "Inf", "\n">>),
                   Country("India")>>]

\* a Budget value that is not a number, after a Posted On that is in the layout
ItemBadBudget ==
    [Title |-> <<"J">> \o Suffix,
     Content |-> <<PostedOn(<<"3", " ", "UTC">>),
                   Match(<<"Budget">>, <<" ", "$", "lots", "\n">>),
                   Country("Germany")>>]

\* an Hourly Range whose upper end is not a number
ItemBadRange ==
    [Title |-> <<"K">> \o Suffix,
     Content |-> <<PostedOn(<<"3", " ", "UTC">>),
                   Country("Germany"),
                   Match(<<"Hourly", " ", "Range">>, <<" ", "$", "1", "5", "-", "$", "x", "\n">>)>>]

Items ==
    {ItemT, ItemOlder, ItemNewer, ItemJunkT, ItemFabricated, ItemNoDate,
     ItemBadDate, ItemInf, ItemBadBudget, ItemBadRange}

Categories == {"filtered", "unfiltered"}

(***************************************************************************)
(* the process                                                             *)
(***************************************************************************)
VARIABLES
    pc,              \* where main is: fetch, item, check, notify, sleep, or exited
    exit,            \* why the process exited: fetch, parse, save, notify
    today,           \* the calendar day of the last time.Now()
    files,           \* the files of saveDir, by Filename
    jobs,            \* main's jobs (the filtered store)
    jobsUnfiltered,  \* main's jobsUnfiltered
    recentJob,       \* main's recentJob (the watermark)
    job,             \* the loop's job
    call,            \* the arguments of the Notify call the loop is at
    notified,        \* the notifications this process has delivered, in order
    processed,       \* the jobs ParseJob has returned in this run, in order
    known,           \* whether job's key was in jobsUnfiltered before the upsert
    savedOn,         \* per category, the day of this run's last SaveJobs (0: none)
    taken,           \* the number of items taken, over all runs
    nextPtr          \* the next unused Location address of this process

vars ==
    <<pc, exit, today, files, jobs, jobsUnfiltered, recentJob, job, call,
      notified, processed, known, savedOn, taken, nextPtr>>

NoCall == [title |-> <<>>, body |-> <<>>]

\* the calendar days a time.Now() may return: the clock does not go back
Now == {d \in {today, today + 1} : d <= MaxDay}

\* the first start, in an empty saveDir: both LoadJobs return an empty map
Init ==
    /\ pc = "fetch"
    /\ exit = ""
    /\ today = 1
    /\ files = [f \in {} |-> <<>>]
    /\ jobs = EmptyMap
    /\ jobsUnfiltered = EmptyMap
    /\ recentJob = ZeroTime
    /\ job = NewJob
    /\ call = NoCall
    /\ notified = <<>>
    /\ processed = <<>>
    /\ known = FALSE
    /\ savedOn = [c \in Categories |-> 0]
    /\ taken = 0
    /\ nextPtr = 2

\* a watermark test that any job of another instant passes
NotSameInstant(j, watermark) == j.PostedOn.sec # watermark.sec

\* a watermark test against the zero time
LaterThanZero(j, watermark) == j.PostedOn.sec > 0

\* a watermark test that a job of the watermark's instant passes
NewerOrSame(j, watermark) == j.PostedOn.sec >= watermark.sec

\* a watermark test by the inequality of the keys
NotSameKey(j, watermark) == j.PostedOn # watermark

\* job.PostedOn.After(recentJob)
NewerThan(j, watermark) == After(j.PostedOn, watermark)

\* log.Fatal, log.Fatalln: the process exits
Fatal(why) ==
    /\ pc' = "exited"
    /\ exit' = why

\* feedParser.ParseURL returns a feed
Fetch ==
    /\ pc = "fetch"
    /\ pc' = "item"
    /\ UNCHANGED <<exit, today, files, jobs, jobsUnfiltered, recentJob, job,
                   call, notified, processed, known, savedOn, taken, nextPtr>>

\* feedParser.ParseURL returns an error
FetchFails ==
    /\ pc = "fetch"
    /\ Fatal("fetch")
    /\ UNCHANGED <<today, files, jobs, jobsUnfiltered, recentJob, job, call,
                   notified, processed, known, savedOn, taken, nextPtr>>

\* the loop takes the feed's next item: ParseJob, the upsert into
\* jobsUnfiltered and SaveJobs (lines 61 to 63)
TakeItem(item) ==
    /\ pc = "item"
    /\ taken < MaxItems
    /\ taken' = taken + 1
    /\ LET r == ParseJob(item, nextPtr)
       IN  IF r.err
           THEN /\ Fatal("parse")
                /\ UNCHANGED <<today, files, jobsUnfiltered, job, processed, known,
                               savedOn, nextPtr>>
           ELSE /\ job' = r.job
                /\ nextPtr' = r.fresh
                /\ processed' = Append(processed, r.job)
                /\ known' = (r.job.PostedOn \in DOMAIN jobsUnfiltered)
                /\ jobsUnfiltered' = Upsert(jobsUnfiltered, r.job)
                /\ \E d \in Now :
                     \E o \in SaveJobs(files, d, "unfiltered", jobsUnfiltered') :
                       /\ today' = d
                       /\ files' = o.files
                       /\ IF o.err
                          THEN Fatal("save") /\ UNCHANGED savedOn
                          ELSE /\ pc' = "check"
                               /\ savedOn' = [savedOn EXCEPT !["unfiltered"] = d]
                               /\ UNCHANGED exit
    /\ UNCHANGED <<jobs, recentJob, call, notified>>

\* the feed has no further item: time.Sleep
EndOfFeed ==
    /\ pc = "item"
    /\ pc' = "sleep"
    /\ UNCHANGED <<exit, today, files, jobs, jobsUnfiltered, recentJob, job,
                   call, notified, processed, known, savedOn, taken, nextPtr>>

\* Check with SaveJobs called before the upsert into jobs
CheckSavesFirst ==
    /\ pc = "check"
    /\ IF NewerThan(job, recentJob)
       THEN /\ recentJob' = job.PostedOn
            /\ IF ~Junk(job).junk
               THEN /\ jobs' = Upsert(jobs, job)
                    /\ \E d \in Now :
                         \E o \in SaveJobs(files, d, "filtered", jobs) :
                           /\ today' = d
                           /\ files' = o.files
                           /\ IF o.err
                              THEN Fatal("save") /\ UNCHANGED <<call, savedOn>>
                              ELSE /\ pc' = "notify"
                                   /\ call' = [title |-> job.Title, body |-> Format(job)]
                                   /\ savedOn' = [savedOn EXCEPT !["filtered"] = d]
                                   /\ UNCHANGED exit
               ELSE /\ pc' = "notify"
                    /\ call' = [title |-> <<"Job filtered out">>,
                                body |-> Junk(job).reason]
                    /\ UNCHANGED <<exit, today, jobs, files, savedOn>>
       ELSE /\ pc' = "item"
            /\ UNCHANGED <<exit, today, recentJob, jobs, files, call, savedOn>>
    /\ UNCHANGED <<jobsUnfiltered, job, notified, processed, known, taken, nextPtr>>

\* the watermark test, and for a newer job the classification, the upsert into
\* jobs with its SaveJobs, up to the call of Notify (lines 65 to 73 and 79)
Check ==
    /\ pc = "check"
    /\ IF NewerThan(job, recentJob)
       THEN /\ recentJob' = job.PostedOn
            /\ IF ~Junk(job).junk
               THEN /\ jobs' = Upsert(jobs, job)
                    /\ \E d \in Now :
                         \E o \in SaveJobs(files, d, "filtered", jobs') :
                           /\ today' = d
                           /\ files' = o.files
                           /\ IF o.err
                              THEN Fatal("save") /\ UNCHANGED <<call, savedOn>>
                              ELSE /\ pc' = "notify"
                                   /\ call' = [title |-> job.Title, body |-> Format(job)]
                                   /\ savedOn' = [savedOn EXCEPT !["filtered"] = d]
                                   /\ UNCHANGED exit
               ELSE /\ pc' = "notify"
                    /\ call' = [title |-> <<"Job filtered out">>,
                                body |-> Junk(job).reason]
                    /\ UNCHANGED <<exit, today, jobs, files, savedOn>>
       ELSE /\ pc' = "item"
            /\ UNCHANGED <<exit, today, recentJob, jobs, files, call, savedOn>>
    /\ UNCHANGED <<jobsUnfiltered, job, notified, processed, known, taken, nextPtr>>

\* Notify returns nil
Notify ==
    /\ pc = "notify"
    /\ notified' = Append(notified, [title |-> call.title, body |-> call.body,
                                     job |-> job])
    /\ call' = NoCall
    /\ pc' = "item"
    /\ UNCHANGED <<exit, today, files, jobs, jobsUnfiltered, recentJob, job,
                   processed, known, savedOn, taken, nextPtr>>

\* Notify returns an error
NotifyFails ==
    /\ pc = "notify"
    /\ Fatal("notify")
    /\ UNCHANGED <<today, files, jobs, jobsUnfiltered, recentJob, job, call,
                   notified, processed, known, savedOn, taken, nextPtr>>

\* time.Sleep returns
Sleep ==
    /\ pc = "sleep"
    /\ pc' = "fetch"
    /\ UNCHANGED <<exit, today, files, jobs, jobsUnfiltered, recentJob, job,
                   call, notified, processed, known, savedOn, taken, nextPtr>>

\* a start that takes the watermark over from the process before
RestartKeepsWatermark ==
    /\ pc = "exited"
    /\ pc' = "fetch"
    /\ exit' = ""
    /\ \E d \in Now :
         \E e \in {x \in {d, d + 1} : x <= MaxDay} :
           /\ today' = e
           /\ jobs' = LoadJobs(files, d, "filtered", nextPtr)
           /\ jobsUnfiltered' = LoadJobs(files, e, "unfiltered", nextPtr)
    /\ job' = NewJob
    /\ call' = NoCall
    /\ processed' = <<>>
    /\ known' = FALSE
    /\ savedOn' = [c \in Categories |-> 0]
    /\ notified' = <<>>
    /\ nextPtr' = 2
    /\ UNCHANGED <<files, taken, recentJob>>

\* the program is started again after it exited: main up to the loop
\* (lines 47 to 53); each LoadJobs reads the clock
Restart ==
    /\ pc = "exited"
    /\ pc' = "fetch"
    /\ exit' = ""
    /\ \E d \in Now :
         \E e \in {x \in {d, d + 1} : x <= MaxDay} :
           /\ today' = e
           /\ jobs' = LoadJobs(files, d, "filtered", nextPtr)
           /\ jobsUnfiltered' = LoadJobs(files, e, "unfiltered", nextPtr)
    /\ recentJob' = ZeroTime
    /\ job' = NewJob
    /\ call' = NoCall
    /\ processed' = <<>>
    /\ known' = FALSE
    /\ savedOn' = [c \in Categories |-> 0]
    /\ notified' = <<>>
    /\ nextPtr' = 2
    /\ UNCHANGED <<files, taken>>

Next ==
    \/ Fetch
    \/ FetchFails
    \/ \E item \in Items : TakeItem(item)
    \/ EndOfFeed
    \/ Check
    \/ Notify
    \/ NotifyFails
    \/ Sleep
    \/ Restart

Spec == Init /\ [][Next]_vars

TypeOK ==
    /\ pc \in {"fetch", "item", "check", "notify", "sleep", "exited"}
    /\ exit \in {"", "fetch", "parse", "save", "notify"}
    /\ (pc = "exited") = (exit # "")
    /\ today \in 1..MaxDay
    /\ DOMAIN files \subseteq (1..MaxDay) \X Categories
    /\ \A k \in DOMAIN jobs : jobs[k].PostedOn = k
    /\ \A k \in DOMAIN jobsUnfiltered : jobsUnfiltered[k].PostedOn = k
    /\ taken \in 0..MaxItems

(***************************************************************************)
(* what the claims are stated with                                         *)
(***************************************************************************)
\* the file of that day and category exists and holds the record
FileHas(date, category, rec) ==
    /\ <<date, category>> \in DOMAIN files
    /\ \E i \in 1..Len(files[<<date, category>>]) : files[<<date, category>>][i] = rec

\* the file of that day and category exists and holds a record with that posted_on
FileHasKey(date, category, stamp) ==
    /\ <<date, category>> \in DOMAIN files
    /\ \E i \in 1..Len(files[<<date, category>>]) :
           files[<<date, category>>][i].PostedOn = stamp

RECURSIVE MaxSec(_)
\* the latest instant among the zero time and the jobs of ps
MaxSec(ps) ==
    IF ps = <<>> THEN 0
    ELSE LET m == MaxSec(Tail(ps))
         IN  IF Head(ps).PostedOn.sec > m THEN Head(ps).PostedOn.sec ELSE m

\* the jobs of this run the loop is through with: all that ParseJob returned,
\* but the last one while the loop has not yet reached its watermark test
Done ==
    IF pc = "check" \/ exit = "save"
    THEN SubSeq(processed, 1, Len(processed) - 1)
    ELSE processed

\* the loop is between two items, every Notify so far has returned
Idle == pc \in {"item", "sleep", "fetch"}

NotifiedJobs == [i \in 1..Len(notified) |-> notified[i].job]

JobT == ParseJob(ItemT, 2).job

JobOlder == ParseJob(ItemOlder, 2).job

JobNewer == ParseJob(ItemNewer, 2).job

JobJunkT == ParseJob(ItemJunkT, 2).job

(***************************************************************************)
(* C1: every job ParseJob returned is in jobsUnfiltered and in the         *)
(* unfiltered file before its watermark test, so that wherever the run     *)
(* later ends by a parse error, a failed Notify or a failed fetch, the     *)
(* unfiltered file has an entry under the posted_on of every job extracted *)
(* in the run.  The file is the one of the day of the run's last SaveJobs  *)
(* of the unfiltered store.                                                *)
(***************************************************************************)
C1_Durable ==
    (exit # "save" /\ processed # <<>>) =>
        /\ savedOn["unfiltered"] # 0
        /\ \A i \in 1..Len(processed) :
               /\ processed[i].PostedOn \in DOMAIN jobsUnfiltered
               /\ FileHasKey(savedOn["unfiltered"], "unfiltered",
                             MarshalTime(processed[i].PostedOn))
        /\ jobsUnfiltered[processed[Len(processed)].PostedOn] = processed[Len(processed)]
        /\ FileHas(savedOn["unfiltered"], "unfiltered",
                   MarshalJob(processed[Len(processed)]))

\* C1 as it is worded: the file is the one of the current day
C1_CurrentDay ==
    (exit \in {"parse", "notify", "fetch"} /\ processed # <<>>) =>
        \A i \in 1..Len(processed) :
            FileHasKey(today, "unfiltered", MarshalTime(processed[i].PostedOn))

\* the run ended by the parse error of a third item, two jobs are in the file
C1_Witness ==
    /\ exit = "parse"
    /\ Len(processed) = 2
    /\ processed[1].PostedOn # processed[2].PostedOn
    /\ Len(files[<<savedOn["unfiltered"], "unfiltered">>]) = 2

(***************************************************************************)
(* C2: the watermark is the zero time as long as no job of the run is      *)
(* later than it, and otherwise the PostedOn of the first job of the run   *)
(* that reached the latest instant of all jobs the loop is through with:   *)
(* it moves only to a strictly later job and never back.                   *)
(***************************************************************************)
C2_Watermark ==
    LET m == MaxSec(Done)
    IN  /\ recentJob.sec = m
        /\ IF m = 0 THEN recentJob = ZeroTime
           ELSE \E i \in 1..Len(Done) :
                    /\ Done[i].PostedOn = recentJob
                    /\ \A j \in 1..(i - 1) : Done[j].PostedOn.sec < m

\* the watermark has moved twice and a job older than it has been through
C2_Witness ==
    /\ Idle
    /\ Len(processed) = 3
    /\ processed[1].PostedOn.sec = 2
    /\ processed[2].PostedOn.sec = 3
    /\ processed[3].PostedOn.sec = 1
    /\ recentJob = processed[2].PostedOn

(***************************************************************************)
(* C3: the loop notifies, in the order of the feed, exactly the jobs that  *)
(* are strictly later than every job before them in the run: of T, T-1,    *)
(* T+1 in this order, T and T+1; of T-1, T, T+1, all three.                *)
(***************************************************************************)
IsNew(ps, i) == ps[i].PostedOn.sec > MaxSec(SubSeq(ps, 1, i - 1))

RECURSIVE NewFrom(_, _)
NewFrom(ps, i) ==
    IF i > Len(ps) THEN <<>>
    ELSE (IF IsNew(ps, i) THEN <<ps[i]>> ELSE <<>>) \o NewFrom(ps, i + 1)

\* the instants of the jobs of ps, in order
Instants(ps) == [i \in 1..Len(ps) |-> ps[i].PostedOn.sec]

C3_FeedOrder ==
    Idle =>
        /\ NotifiedJobs = NewFrom(processed, 1)
        /\ Instants(processed) = <<2, 1, 3>> =>
               NotifiedJobs = <<processed[1], processed[3]>>
        /\ Instants(processed) = <<1, 2, 3>> => NotifiedJobs = processed

C3_Witness ==
    /\ Idle
    /\ processed = <<JobT, JobOlder, JobNewer>>
    /\ NotifiedJobs = <<JobT, JobNewer>>
    /\ DOMAIN jobs = {JobT.PostedOn, JobNewer.PostedOn}

(***************************************************************************)
(* C4: for every item whose key was not in jobsUnfiltered before its       *)
(* upsert, a notification is sent before the next item is taken (stated    *)
(* for the items that carry a Posted On).                                  *)
(***************************************************************************)
C4_NotifiesEveryNewKey ==
    (Idle /\ processed # <<>> /\ ~known
          /\ processed[Len(processed)].PostedOn # ZeroTime) =>
        /\ notified # <<>>
        /\ notified[Len(notified)].job = processed[Len(processed)]

(***************************************************************************)
(* C5: at the Notify call for a job that is not junk, whether it returns   *)
(* or fails, the call carries the job's title and Format, the job is in    *)
(* jobs under its key and the filtered file the run last saved holds it;   *)
(* the same stays true of every such notification the run has delivered,   *)
(* and no job is notified twice.                                           *)
(***************************************************************************)
JunkSet == {<<"India">>, <<"Nigeria">>}

C5_SavedBeforeNotify ==
    /\ ((pc = "notify" \/ exit = "notify") /\ job.Country \notin JunkSet) =>
           /\ call = [title |-> job.Title, body |-> Format(job)]
           /\ job.PostedOn \in DOMAIN jobs
           /\ jobs[job.PostedOn] = job
           /\ FileHas(savedOn["filtered"], "filtered", MarshalJob(job))
    /\ \A i \in 1..Len(notified) :
           notified[i].job.Country \notin JunkSet =>
               /\ notified[i].title = notified[i].job.Title
               /\ notified[i].body = Format(notified[i].job)
               /\ FileHas(savedOn["filtered"], "filtered", MarshalJob(notified[i].job))
               /\ \A j \in 1..Len(notified) : notified[j].job = notified[i].job => j = i

\* a Notify for a second job that is not junk has failed
C5_Witness ==
    /\ exit = "notify"
    /\ job.Country \notin JunkSet
    /\ Len(notified) = 1
    /\ notified[1].job.Country \notin JunkSet
    /\ Len(files[<<savedOn["filtered"], "filtered">>]) = 2

(***************************************************************************)
(* C6: the step for a job later than the watermark whose country is India  *)
(* or Nigeria sets the watermark to the job's PostedOn and calls Notify    *)
(* with "Job filtered out" and "Country is <country>", and neither that    *)
(* step nor the Notify changes jobs or any file; jobsUnfiltered holds the  *)
(* job; the Notify, when it returns, has added that one notification.      *)
(***************************************************************************)
C6_Step ==
    /\ (pc = "check" /\ job.PostedOn.sec > recentJob.sec /\ job.Country \in JunkSet) =>
           /\ pc' = "notify"
           /\ call' = [title |-> <<"Job filtered out">>,
                       body |-> <<"Country is ">> \o job.Country]
           /\ recentJob' = job.PostedOn
           /\ jobsUnfiltered[job.PostedOn] = job
           /\ UNCHANGED <<jobs, files, jobsUnfiltered, notified>>
    /\ (pc = "notify" /\ job.Country \in JunkSet) =>
           /\ UNCHANGED <<jobs, files, jobsUnfiltered, recentJob>>
           /\ pc' = "item" =>
                  notified' = Append(notified,
                                     [title |-> <<"Job filtered out">>,
                                      body |-> <<"Country is ">> \o job.Country,
                                      job |-> job])

C6_JunkLeavesFiltered == [][C6_Step]_vars

\* a junk job has been notified while jobs held another job
C6_Witness ==
    /\ Idle
    /\ notified # <<>>
    /\ notified[Len(notified)].title = <<"Job filtered out">>
    /\ notified[Len(notified)].job = job
    /\ recentJob = job.PostedOn
    /\ DOMAIN jobs # {}
    /\ job.PostedOn \notin DOMAIN jobs

(***************************************************************************)
(* C7: taking an item changes jobsUnfiltered and the unfiltered file of    *)
(* the day only; and for a job not later than the watermark the loop goes  *)
(* on to the next item with the watermark, jobs, the files, the            *)
(* notifications and the Notify call as they were.                         *)
(***************************************************************************)
C7_Step ==
    /\ (pc = "item" /\ pc' = "check") =>
           /\ UNCHANGED <<jobs, recentJob, notified, call>>
           /\ jobsUnfiltered'[job'.PostedOn] = job'
           /\ DOMAIN files' = DOMAIN files \cup {<<today', "unfiltered">>}
           /\ \A f \in DOMAIN files : f # <<today', "unfiltered">> => files'[f] = files[f]
    /\ (pc = "check" /\ job.PostedOn.sec <= recentJob.sec) =>
           /\ pc' = "item"
           /\ UNCHANGED <<recentJob, jobs, jobsUnfiltered, files, notified, call>>

C7_OldItemSkipped == [][C7_Step]_vars

\* a job of the watermark's instant and an older one have been skipped
C7_Witness ==
    /\ Idle
    /\ Len(processed) = 3
    /\ processed[2].PostedOn.sec = processed[1].PostedOn.sec
    /\ processed[3].PostedOn.sec < processed[1].PostedOn.sec
    /\ processed[3].PostedOn # ZeroTime
    /\ Len(notified) = 1
    /\ recentJob = processed[1].PostedOn
    /\ Cardinality(DOMAIN jobsUnfiltered) >= 2

(***************************************************************************)
(* C8: no job in jobs and no record of a filtered file has the country     *)
(* India or Nigeria.                                                       *)
(***************************************************************************)
C8_FilteredLegit ==
    /\ \A k \in DOMAIN jobs : jobs[k].Country \notin JunkSet
    /\ \A f \in DOMAIN files :
           f[2] = "filtered" =>
               \A i \in 1..Len(files[f]) : files[f][i].Country \notin JunkSet

\* junk jobs are in jobsUnfiltered and in its file next to a filtered file
C8_Witness ==
    /\ \E k \in DOMAIN jobsUnfiltered : jobsUnfiltered[k].Country \in JunkSet
    /\ \E i \in 1..Len(notified) : notified[i].job.Country \in JunkSet
    /\ DOMAIN jobs # {}
    /\ \E f \in DOMAIN files : f[2] = "filtered" /\ files[f] # <<>>

(***************************************************************************)
(* C9: an upsert leaves the job at its PostedOn key, whatever was there    *)
(* before, and every other key with its value: of two jobs with one key    *)
(* the store keeps the second.                                             *)
(***************************************************************************)
UpsertedInto(before, after, j) ==
    /\ DOMAIN after = DOMAIN before \cup {j.PostedOn}
    /\ after[j.PostedOn] = j
    /\ \A k \in DOMAIN before : k # j.PostedOn => after[k] = before[k]

C9_Step ==
    /\ (pc = "item" /\ processed' # processed) =>
           UpsertedInto(jobsUnfiltered, jobsUnfiltered', processed'[Len(processed')])
    /\ (pc = "check" /\ pc' = "notify" /\ job.Country \notin JunkSet) =>
           UpsertedInto(jobs, jobs', job)

C9_LastWriteWins == [][C9_Step]_vars

\* two jobs that differ have been upserted under one key, the second is there
C9_Witness ==
    /\ Len(processed) = 2
    /\ processed[1].PostedOn = processed[2].PostedOn
    /\ processed[1] # processed[2]
    /\ DOMAIN jobsUnfiltered = {processed[2].PostedOn}
    /\ jobsUnfiltered[processed[2].PostedOn] = processed[2]

(***************************************************************************)
(* C10: LoadJobs after SaveJobs, on one day and category, returns the      *)
(* saved mapping: as many entries, and for every saved key an entry of the *)
(* same instant with the same fields (times compared as by Time.Equal).    *)
(***************************************************************************)
SameJob(a, b) ==
    /\ a.PostedOn.sec = b.PostedOn.sec
    /\ [a EXCEPT !.PostedOn = ZeroTime] = [b EXCEPT !.PostedOn = ZeroTime]

SameMapping(loaded, saved) ==
    /\ Cardinality(DOMAIN loaded) = Cardinality(DOMAIN saved)
    /\ \A k \in DOMAIN saved :
           \E l \in DOMAIN loaded : l.sec = k.sec /\ SameJob(loaded[l], saved[k])

RoundTrip(m, category) ==
    \A o \in SaveJobs(files, today, category, m) :
        ~o.err => SameMapping(LoadJobs(o.files, today, category, nextPtr), m)

C10_RoundTrip == RoundTrip(jobsUnfiltered, "unfiltered") /\ RoundTrip(jobs, "filtered")

\* C10 for the stores all of whose keys are in UTC or in the local zone: the
\* loaded mapping is the saved one, keys and values as Go's == compares them
C10_RoundTripKnownZones ==
    \A c \in Categories :
        LET m == IF c = "filtered" THEN jobs ELSE jobsUnfiltered
        IN  (\A k \in DOMAIN m : k.loc \in {UTC, Local}) =>
                \A o \in SaveJobs(files, today, c, m) :
                    ~o.err => LoadJobs(o.files, today, c, nextPtr) = m

(***************************************************************************)
(* C11: whenever the run has saved a store, the file of the day of the     *)
(* last SaveJobs call of that category holds exactly the records of the    *)
(* in-memory store, as many as the store has keys, by posted_on            *)
(* descending (the unfiltered store is ahead of its file only when that    *)
(* SaveJobs ended the process).                                            *)
(***************************************************************************)
Store(c) == IF c = "filtered" THEN jobs ELSE jobsUnfiltered

\* the instant a posted_on text denotes
RecordInstant(rec) == rec.PostedOn.wall - rec.PostedOn.off

C11_FullRewrite ==
    \A c \in Categories :
        (savedOn[c] # 0 /\ ~(c = "unfiltered" /\ exit = "save")) =>
            /\ <<savedOn[c], c>> \in DOMAIN files
            /\ LET f == files[<<savedOn[c], c>>]
               IN  /\ Len(f) = Cardinality(DOMAIN Store(c))
                   /\ {f[i] : i \in 1..Len(f)} = {MarshalJob(v) : v \in Values(Store(c))}
                   /\ \A i \in 1..(Len(f) - 1) :
                          RecordInstant(f[i]) >= RecordInstant(f[i + 1])

\* three jobs taken in the order 2, 1, 3 are in the file in the order 3, 2, 1
C11_Witness ==
    /\ Len(processed) = 3
    /\ Instants(processed) = <<2, 1, 3>>
    /\ savedOn["unfiltered"] # 0
    /\ exit # "save"
    /\ <<savedOn["unfiltered"], "unfiltered">> \in DOMAIN files
    /\ LET f == files[<<savedOn["unfiltered"], "unfiltered">>]
       IN  Len(f) = 3 /\ RecordInstant(f[1]) = 3 /\ RecordInstant(f[3]) = 1

(***************************************************************************)
(* C12: where a process is about to start, LoadJobs on a day the clock may *)
(* show and for a category returns the empty mapping when the file of that *)
(* day and category is absent, and returns what it would return if that    *)
(* file were the only one in the directory: a store loaded on a new day is *)
(* empty whatever the files of earlier days hold.                          *)
(***************************************************************************)
C12_LoadsTodayOnly ==
    pc = "exited" =>
        \A d \in Now, c \in Categories :
            IF <<d, c>> \notin DOMAIN files
            THEN LoadJobs(files, d, c, nextPtr) = EmptyMap
            ELSE LoadJobs(files, d, c, nextPtr)
                     = LoadJobs([f \in {<<d, c>>} |-> files[f]], d, c, nextPtr)

\* a process started on the second day has empty stores while the first day's
\* files of both categories hold records
C12_Witness ==
    /\ pc = "fetch"
    /\ taken > 0
    /\ processed = <<>>
    /\ today = 2
    /\ <<1, "unfiltered">> \in DOMAIN files /\ files[<<1, "unfiltered">>] # <<>>
    /\ <<1, "filtered">> \in DOMAIN files /\ files[<<1, "filtered">>] # <<>>
    /\ <<2, "unfiltered">> \notin DOMAIN files
    /\ <<2, "filtered">> \notin DOMAIN files
    /\ jobs = EmptyMap
    /\ jobsUnfiltered = EmptyMap

(***************************************************************************)
(* C13: ParseJob ends the process on a Posted On, Budget or Hourly Range   *)
(* value it cannot parse; the step that ends the process so changes no     *)
(* store, no file, no notification and not the watermark, and nothing      *)
(* follows it in that process: the next step is the start of a new one.    *)
(***************************************************************************)
BadItems == {ItemBadDate, ItemBadBudget, ItemBadRange}

C13_Step ==
    /\ pc = "item" => \A item \in BadItems : ParseJob(item, nextPtr).err
    /\ (pc = "item" /\ exit' = "parse") =>
           /\ pc' = "exited"
           /\ UNCHANGED <<jobs, jobsUnfiltered, files, notified, processed,
                          recentJob, call, job>>
    /\ pc = "exited" =>
           /\ pc' = "fetch"
           /\ processed' = <<>>
           /\ notified' = <<>>
           /\ recentJob' = ZeroTime
           /\ UNCHANGED files

C13_ParseErrorFatal == [][C13_Step]_vars

\* the process ended on the second item, the first one's effects are there
C13_Witness ==
    /\ exit = "parse"
    /\ Len(processed) = 1
    /\ Len(notified) = 1
    /\ DOMAIN jobs = {processed[1].PostedOn}
    /\ DOMAIN jobsUnfiltered = {processed[1].PostedOn}
    /\ Len(files[<<savedOn["unfiltered"], "unfiltered">>]) = 1

(***************************************************************************)
(* C14: in every job ParseJob returned, a fixed price job has the zero     *)
(* hourly range and an hourly job has the budget 0.                        *)
(***************************************************************************)
PricingConsistent(j) ==
    /\ ~j.IsHourly => j.HourlyRange = <<Num(0), Num(0)>>
    /\ j.IsHourly => j.Budget = 0

C14_PricingExclusive ==
    /\ \A i \in 1..Len(processed) : PricingConsistent(processed[i])
    /\ \A k \in DOMAIN jobsUnfiltered : PricingConsistent(jobsUnfiltered[k])

\* C14 for the hourly mode alone: an hourly job has the budget 0
C14_HourlyHasNoBudget ==
    /\ \A i \in 1..Len(processed) : processed[i].IsHourly => processed[i].Budget = 0
    /\ \A k \in DOMAIN jobsUnfiltered :
           jobsUnfiltered[k].IsHourly => jobsUnfiltered[k].Budget = 0

(***************************************************************************)
(* C15: Junk gives (true, "Country is <country>") when the country is      *)
(* "India" or "Nigeria" and (false, "") for any other country, the empty   *)
(* one and other spellings included, whatever the job's other fields are.  *)
(***************************************************************************)
CountryValues ==
    {<<"India">>, <<"Nigeria">>, <<"Germany">>, <<"india">>, <<"NIGERIA">>,
     <<"India", " ">>, <<"New", " ", "India">>, <<>>}

JunkExpected(country) ==
    IF country = <<"India">> THEN [junk |-> TRUE, reason |-> <<"Country is ", "India">>]
    ELSE IF country = <<"Nigeria">>
    THEN [junk |-> TRUE, reason |-> <<"Country is ", "Nigeria">>]
    ELSE [junk |-> FALSE, reason |-> <<>>]

C15_JunkByCountry ==
    /\ \A i \in 1..Len(processed) : Junk(processed[i]) = JunkExpected(processed[i].Country)
    /\ \A c \in CountryValues :
           Junk([job EXCEPT !.Country = c]) = JunkExpected(c)
    /\ \A i \in 1..Len(notified) :
           (notified[i].title = <<"Job filtered out">>)
               = (notified[i].job.Country \in {<<"India">>, <<"Nigeria">>})

\* a job whose country is "india" and one without a country were notified as
\* legitimate
C15_Witness ==
    /\ Len(notified) = 2
    /\ notified[1].job.Country = <<"india">>
    /\ notified[1].title = notified[1].job.Title
    /\ notified[2].job.Country = <<>>
    /\ notified[2].title = notified[2].job.Title

(***************************************************************************)
(* C16: the instants of the jobs the run has called Notify for, the call   *)
(* the loop is at included, are strictly increasing: no instant has two    *)
(* notifications in one run, however often its posting is delivered.       *)
(***************************************************************************)
NotifyCalls ==
    IF pc = "notify" \/ exit = "notify" THEN Append(NotifiedJobs, job) ELSE NotifiedJobs

C16_NotifiedIncreasing ==
    \A i \in 1..Len(NotifyCalls) : \A k \in 1..Len(NotifyCalls) :
        i < k => NotifyCalls[i].PostedOn.sec < NotifyCalls[k].PostedOn.sec

\* a posting was delivered again after a later one and was not notified again
C16_Witness ==
    /\ Idle
    /\ Len(processed) = 3
    /\ processed[3] = processed[1]
    /\ processed[2].PostedOn.sec > processed[1].PostedOn.sec
    /\ NotifiedJobs = <<processed[1], processed[2]>>

(***************************************************************************)
(* C17: every start of the process sets the watermark to the zero time,    *)
(* whatever LoadJobs returned; a job later than the watermark is then      *)
(* classified and Notify is called for it, also when the loaded stores     *)
(* already hold it under its key.                                          *)
(***************************************************************************)
C17_Step ==
    /\ pc = "exited" => recentJob' = ZeroTime
    /\ (pc = "check" /\ known /\ job.PostedOn.sec > recentJob.sec) =>
           /\ pc' = "notify"
           /\ recentJob' = job.PostedOn
           /\ call' = IF job.Country \in JunkSet
                      THEN [title |-> <<"Job filtered out">>, body |-> Junk(job).reason]
                      ELSE [title |-> job.Title, body |-> Format(job)]

C17_WatermarkResetAtStart == [][C17_Step]_vars

\* a process has loaded a job into both stores, has taken the same job as its
\* first item and is at the watermark test, which the job passes
C17_Witness ==
    /\ pc = "check"
    /\ processed = <<job>>
    /\ known
    /\ recentJob = ZeroTime
    /\ job.PostedOn.sec > 0
    /\ job.PostedOn \in DOMAIN jobs
    /\ jobs[job.PostedOn] = job
    /\ notified = <<>>

(***************************************************************************)
(* C18: a job the loop of this run has put into jobs stays there as it is  *)
(* for the rest of the run: a later job with the same PostedOn is not      *)
(* later than the watermark and goes into jobsUnfiltered only, so that the *)
(* two stores may hold different jobs under one key.                       *)
(***************************************************************************)
\* the jobs this run's loop has put into jobs: those it called Notify for with
\* their own title
WrittenToFiltered ==
    {NotifyCalls[i] : i \in {n \in 1..Len(NotifyCalls) :
                                 NotifyCalls[n].Country \notin JunkSet}}

C18_Step ==
    /\ \A j \in WrittenToFiltered :
           /\ j.PostedOn \in DOMAIN jobs
           /\ jobs[j.PostedOn] = j
    /\ (pc = "check" /\ \E j \in WrittenToFiltered : j.PostedOn = job.PostedOn) =>
           /\ pc' = "item"
           /\ UNCHANGED <<jobs, recentJob, notified>>
           /\ jobsUnfiltered[job.PostedOn] = job

C18_FilteredFirstWriteWins == [][C18_Step]_vars

\* a junk job has taken the key of a legitimate job in jobsUnfiltered, jobs
\* still holds the legitimate one
C18_Witness ==
    /\ Idle
    /\ Len(processed) = 2
    /\ processed[1].PostedOn = processed[2].PostedOn
    /\ processed[2].Country \in JunkSet
    /\ NotifiedJobs = <<processed[1]>>
    /\ jobs[processed[1].PostedOn] = processed[1]
    /\ jobsUnfiltered[processed[1].PostedOn] = processed[2]

(***************************************************************************)
(* C19: a job from an item without a Posted On label has the zero time as  *)
(* PostedOn; taking it puts it into jobsUnfiltered under the zero key,     *)
(* whatever was there; its watermark test fails, so that no job of the     *)
(* zero key is ever in jobs, in a filtered file or in a Notify call.       *)
(***************************************************************************)
C19_Step ==
    /\ pc = "item" => ParseJob(ItemNoDate, nextPtr).job.PostedOn = ZeroTime
    /\ ZeroTime \notin DOMAIN jobs
    /\ \A i \in 1..Len(NotifyCalls) : NotifyCalls[i].PostedOn.sec # 0
    /\ \A f \in DOMAIN files :
           f[2] = "filtered" => \A i \in 1..Len(files[f]) : RecordInstant(files[f][i]) # 0
    /\ (pc = "item" /\ pc' = "check" /\ job'.PostedOn = ZeroTime) =>
           /\ jobsUnfiltered'[ZeroTime] = job'
           /\ DOMAIN jobsUnfiltered' = DOMAIN jobsUnfiltered \cup {ZeroTime}
           /\ <<today', "unfiltered">> \in DOMAIN files'
           /\ \E i \in 1..Len(files'[<<today', "unfiltered">>]) :
                  files'[<<today', "unfiltered">>][i] = MarshalJob(job')
    /\ (pc = "check" /\ job.PostedOn = ZeroTime) =>
           /\ pc' = "item"
           /\ UNCHANGED <<jobs, files, notified, recentJob, call>>

C19_ZeroKeyNeverNew == [][C19_Step]_vars

\* the job without Posted On was the first item of a run, and was taken again
\* after another job: it is in jobsUnfiltered and in its file, and nowhere else
C19_Witness ==
    /\ Idle
    /\ Len(processed) = 3
    /\ processed[1].PostedOn = ZeroTime
    /\ processed[2].PostedOn.sec > 0
    /\ processed[3].PostedOn = ZeroTime
    /\ NotifiedJobs = <<processed[2]>>
    /\ jobsUnfiltered[ZeroTime] = processed[3]
    /\ FileHas(savedOn["unfiltered"], "unfiltered", MarshalJob(processed[3]))
    /\ DOMAIN jobs = {processed[2].PostedOn}

(***************************************************************************)
(* C20: when a running process saves a store on a later day than it last   *)
(* saved it, the store still holds every job it held, the save creates the *)
(* file of the new day with a record for every job of the store, and every *)
(* other file, the earlier day's one included, stays as it was.  A process *)
(* started on a day without a file begins with the empty store.            *)
(***************************************************************************)
SavedLaterDay(c, before, after) ==
    /\ DOMAIN before \subseteq DOMAIN after
    /\ <<today', c>> \notin DOMAIN files
    /\ <<today', c>> \in DOMAIN files'
    /\ Len(files'[<<today', c>>]) = Cardinality(DOMAIN after)
    /\ \A k \in DOMAIN after :
           \E i \in 1..Len(files'[<<today', c>>]) :
               files'[<<today', c>>][i] = MarshalJob(after[k])
    /\ \A f \in DOMAIN files : f \in DOMAIN files' /\ files'[f] = files[f]
    /\ <<savedOn[c], c>> \in DOMAIN files

C20_Step ==
    /\ (pc = "item" /\ pc' = "check" /\ savedOn["unfiltered"] # 0
            /\ today' > savedOn["unfiltered"]) =>
           SavedLaterDay("unfiltered", jobsUnfiltered, jobsUnfiltered')
    /\ (pc = "check" /\ jobs' # jobs /\ savedOn["filtered"] # 0
            /\ today' > savedOn["filtered"]) =>
           SavedLaterDay("filtered", jobs, jobs')
    /\ (pc = "exited" /\ <<today', "unfiltered">> \notin DOMAIN files) =>
           jobsUnfiltered' = EmptyMap

C20_DayChangeKeepsStore == [][C20_Step]_vars

\* the run saved one job on the first day and two on the second: both files exist
C20_Witness ==
    /\ pc = "check"
    /\ Len(processed) = 2
    /\ processed[1].PostedOn.sec # processed[2].PostedOn.sec
    /\ savedOn["unfiltered"] = 2
    /\ <<1, "unfiltered">> \in DOMAIN files
    /\ <<2, "unfiltered">> \in DOMAIN files
    /\ files[<<1, "unfiltered">>] = <<MarshalJob(processed[1])>>
    /\ Len(files[<<2, "unfiltered">>]) = 2
    /\ FileHas(2, "unfiltered", MarshalJob(processed[1]))

====
